---- MODULE Spec2Model ----
(***************************************************************************)
(* Task orchestration of the unified agent framework: TaskExecutor         *)
(* (submitTask, cancelTask, the '*' job processor), TaskQueue (a Bull      *)
(* queue: priority wait list, leases, retries), TaskRouter, AgentRegistry  *)
(* and the agents' own status writes (BaseAgent.updateTaskStatus).         *)
(*                                                                         *)
(* Every `await` of the source is a point where other operations may run,  *)
(* so each handler is cut into actions at the awaited store and queue      *)
(* calls that write; reads that precede a write are taken with it.         *)
(***************************************************************************)
EXTENDS Naturals, Sequences, FiniteSets

(* ---------------------------- bounds ---------------------------------- *)

\* number of submitTask calls made in a behaviour
MaxExec == 2
\* number of cancelTask calls made in a behaviour
MaxCancels == 1

ExecIds == 1..MaxExec
\* createBrandConfig calls of a behaviour
MaxCreates == 2
CreateIds == 1..MaxCreates
\* rate limiter: requests per window (options.max) and length of the window
\* (options.windowMs), scaled down, and the requests of a key that are
\* followed within one window; the clock runs until a second window of a
\* key can open
RateLimitMax == 2
RateLimitWindow == 2
MaxBurst == 4
MaxTime == RateLimitWindow + 2
\* ids Bull can have given to jobs: submitTask adds at most one job per call
JobSlots == 1..MaxExec

(* ------------------------ program constants --------------------------- *)

NULL == "null"

\* defaultQueueOptions.defaultJobOptions.attempts (AGENT_MAX_RETRIES unset)
MaxAttempts == 3
\* concurrency given to taskQueue.processTask('*', 5, ...)
Concurrency == 5

\* enum TaskPriority
HIGHEST == 1
HIGH == 5
MEDIUM == 10
LOW == 15
LOWEST == 20

\* TaskQueue.getPriorityValue
getPriorityValue(priority) ==
  CASE priority = "highest" -> HIGHEST
    [] priority = "high" -> HIGH
    [] priority = "medium" -> MEDIUM
    [] priority = "low" -> LOW
    [] priority = "lowest" -> LOWEST
    [] OTHER -> MEDIUM

(* --------------------------- environment ------------------------------ *)

\* task types a caller may name
TaskTypes == {"echo", "ghost", "nodef"}
\* rows of the store's `tasks` table (one row per defined task type)
tasksTable == {"echo", "ghost"}
\* the agent registered at start-up, by its id
AgentIds == {"a1"}
\* agent objects that can be handed to registerAgent: a1v2 is another
\* agent configured with the id of a1
Agents == {"a1", "a1v2", "a2"}
\* BaseAgent.getInfo().id
AgentId(agent) == IF agent = "a1v2" THEN "a1" ELSE agent
\* BaseAgent.capabilities of each agent
Capabilities(a) ==
  CASE a = "a1" -> {"echo"}
    [] a = "a1v2" -> {"echo", "ghost"}
    [] a = "a2" -> {"echo", "ghost"}
    [] OTHER -> {}
\* submitTask arguments callers pass ("" is a missing priority, callback
\* tells whether a callback URL is given)
Requests ==
  { [taskType |-> "echo", priority |-> "", callback |-> TRUE],
    [taskType |-> "echo", priority |-> "high", callback |-> FALSE],
    [taskType |-> "ghost", priority |-> "", callback |-> FALSE],
    [taskType |-> "nodef", priority |-> "high", callback |-> TRUE] }
\* brand keys a caller may name: edmShuffle is one of the static brandConfigs,
\* dbBrand has a row in the store's `brands` table only, ghostBrand is known
\* nowhere
BrandKeys == {"edmShuffle", "dbBrand", "ghostBrand"}
\* a call that names no brand
NoBrand == ""
\* settings/edmShuffle.ts, with the task types of the model standing for
\* generateWeeklyPlaylist (echo) and analyzeTrackLibrary (ghost)
edmShuffle ==
  [key |-> "edmShuffle",
   taskSettings |->
     [default |-> [priority |-> "medium", timeout |-> 60000, retries |-> 3],
      taskOverrides |->
        [echo |-> [priority |-> "high",
                   parameters |-> [includeNewReleases |-> TRUE,
                                   trackCount |-> 25]],
         ghost |-> [priority |-> "high", timeout |-> 180000]]]]
\* brands/settings/index.ts, as far as its imports exist
brandConfigs == [b \in {"edmShuffle"} |-> edmShuffle]
\* rows of the store's `brands` table at start-up, in the order of their
\* insertion: a brand created through the API before the last restart, which
\* the cache does not hold; as brandConfigSchema leaves it, with default
\* settings and its parameter defaults in the override of a task type
brandsTable ==
  << [key |-> "dbBrand",
      taskSettings |->
        [default |-> [priority |-> "low", timeout |-> 30000, retries |-> 1],
         taskOverrides |->
           [echo |-> [parameters |-> [filters |-> [bpm |-> 120,
                                                   mood |-> "dark"],
                                      trackCount |-> 10]]]]] >>
\* parameter maps callers pass
NoParameters == [k \in {} |-> NULL]
CallerParameters ==
  { NoParameters,
    [trackCount |-> 50],
    [genre |-> "house"],
    [filters |-> [bpm |-> 128], genre |-> "house"] }
\* rate limit keys: what keyGenerator makes of a request (API key or IP)
RateKeys == {"k1", "k2"}
\* RateLimitError.status
RateLimitStatus == 429
\* outcomes of the POST to a callback URL
Responses == {"ok", "not_ok", "network_error"}
\* value an agent's work produces and message of the error it throws
AgentResult == "res"
AgentError == "agent error"
NoAgentError == "No agent available to execute task type"

\* BaseAgent.canExecute
canExecute(a, taskType) == taskType \in Capabilities(a)

VARIABLES
  registry,         \* AgentRegistry.agents, in insertion order
  task_executions,  \* store table: executionId -> row (NoRow when absent)
  agent_logs,       \* store table: rows [execution_id, message, jobId]
  jobs,             \* Bull jobs by job id (index): data, state, attemptsMade,
                    \* times leased, and the processor's position and locals
  wait,             \* Bull wait list: job ids in the order they are leased
  submit,           \* per executionId: progress and outcome of submitTask
  cancel,           \* per executionId: progress and return values of
                    \* cancelTask, and where the job stood when it wrote
  calls,            \* per executionId: agent.executeTask invocations
  callbacks,        \* per executionId: notifications POSTed by sendCallback
  configCache,      \* BrandConfig.configCache: brand key -> <<config>>, or
                    \* <<>> for a key the Map does not hold
  storeUp,          \* the store answers requests; when FALSE every request
                    \* to it comes back with an error and changes nothing
  brands,           \* store table `brands`: its rows in insertion order
  create,           \* per createBrandConfig call: progress, config, outcome
  limiter           \* the rate limiter: now is Date.now(), requestCounts the
                    \* module's map of the same name (count 0 and resetTime 0
                    \* for a key it does not hold), and per key the requests
                    \* handed to next() since its window opened and the
                    \* status its latest request was answered with (0 when
                    \* the request went on to next())

vars == <<registry, task_executions, agent_logs, jobs, wait, submit, cancel,
          calls, callbacks, configCache, storeUp, brands, create, limiter>>

(* ------------------------------ store --------------------------------- *)

\* supabase .single(): the row when exactly one matches; when none (or
\* several) match, PostgREST answers with an error (PGRST116) and no data,
\* so the callers' `if (error)` branch is taken before their `if (!data)`.
\* data is <<row>>, or <<>> for null.
Single(rows) ==
  IF ~storeUp THEN [data |-> <<>>, error |-> "store error"]
  ELSE IF Cardinality(rows) = 1
    THEN [data |-> <<CHOOSE r \in rows : TRUE>>, error |-> NULL]
    ELSE [data |-> <<>>, error |-> "PGRST116"]

\* db.from('task_executions').select(...).eq('id', executionId).single()
SelectExecution(executionId) ==
  Single({task_executions[e] : e \in {x \in ExecIds :
            x = executionId /\ task_executions[x].status # NULL}})

\* mutant of UpdateExecution: an update also empties the parameters column
UpdateExecution_DropsParameters(executionId, fields) ==
  IF ~storeUp \/ task_executions[executionId].status = NULL
    THEN task_executions
    ELSE [task_executions EXCEPT ![executionId] =
            [c \in DOMAIN @ |-> IF c \in DOMAIN fields THEN fields[c]
                                ELSE IF c = "parameters" THEN NoParameters
                                ELSE @[c]]]

\* db.from('task_executions').update(fields).eq('id', executionId):
\* only the named columns change, and only if the row exists; an error
\* comes back as a value the callers in the processor and the agent do not
\* look at
UpdateExecution(executionId, fields) ==
  IF ~storeUp \/ task_executions[executionId].status = NULL
    THEN task_executions
    ELSE [task_executions EXCEPT ![executionId] =
            [c \in DOMAIN @ |-> IF c \in DOMAIN fields THEN fields[c] ELSE @[c]]]

\* no row of that id: every column null (timestamps: 0 is null)
NoRow == [task_type |-> NULL, agent_id |-> NULL, parameters |-> NoParameters,
          status |-> NULL,
          priority |-> NULL, result |-> NULL, error |-> NULL,
          started_at |-> 0, completed_at |-> 0]

\* new Date() as seen by one row: later than every timestamp the row holds
Now(executionId) ==
  LET row == task_executions[executionId]
  IN (IF row.started_at > row.completed_at
        THEN row.started_at ELSE row.completed_at) + 1

(* ----------------------------- registry ------------------------------- *)

RECURSIVE FirstCapable(_, _)
FirstCapable(agents, taskType) ==
  IF agents = <<>> THEN NULL
  ELSE IF canExecute(Head(agents), taskType) THEN Head(agents)
  ELSE FirstCapable(Tail(agents), taskType)

\* AgentRegistry.findAgentForTask
findAgentForTask(taskType) == FirstCapable(registry, taskType)

\* AgentRegistry.registerAgent: this.agents.set(agentInfo.id, agent). Map.set
\* on a key already there keeps the place of the key and replaces its
\* value; nothing is thrown
registerAgent(agent) ==
  [agents |->
     IF \E i \in 1..Len(registry) : AgentId(registry[i]) = AgentId(agent)
       THEN [i \in 1..Len(registry) |->
               IF AgentId(registry[i]) = AgentId(agent)
                 THEN agent ELSE registry[i]]
       ELSE Append(registry, agent),
   throws |-> NULL]

\* AgentRegistry.unregisterAgent: this.agents.delete(agentId)
unregisterAgent(agentId) ==
  SelectSeq(registry, LAMBDA x : AgentId(x) # agentId)

(* --------------------------- brand config ----------------------------- *)

\* a key of an object literal is present
HasKey(object, key) == key \in DOMAIN object

\* object spread {...a, ...b}: the keys of both, b's value where b has the key
Spread(a, b) ==
  [k \in DOMAIN a \cup DOMAIN b |-> IF k \in DOMAIN b THEN b[k] ELSE a[k]]

\* db.from('brands').select(...).eq('key', brandKey).single()
SelectBrand(brandKey) ==
  LET q == Single({i \in 1..Len(brands) : brands[i].key = brandKey})
  IN IF q.error # NULL \/ q.data = <<>> THEN q
     ELSE [data |-> <<brands[q.data[1]]>>, error |-> NULL]

\* BrandConfig.getBrandConfig: the cached config; else the `brands` row,
\* which is then cached; else BrandConfigError (.single() answers a missing
\* row with an error, so the default-config branch behind `if (!data)` is
\* not taken). cache is configCache after the call
getBrandConfig(brandKey) ==
  IF brandKey \in DOMAIN configCache /\ configCache[brandKey] # <<>>
    THEN [config |-> configCache[brandKey], cache |-> configCache,
          throws |-> NULL]
    ELSE LET q == SelectBrand(brandKey)
         IN IF q.error # NULL
              THEN [config |-> <<>>, cache |-> configCache,
                    throws |-> "BrandConfigError"]
            ELSE IF q.data = <<>>
              THEN IF brandKey \in DOMAIN brandConfigs
                     THEN [config |-> <<brandConfigs[brandKey]>>,
                           cache |-> [configCache EXCEPT ![brandKey] =
                                        <<brandConfigs[brandKey]>>],
                           throws |-> NULL]
                     ELSE [config |-> <<>>, cache |-> configCache,
                           throws |-> "BrandConfigError"]
            ELSE [config |-> q.data,
                  cache |-> [configCache EXCEPT ![brandKey] = q.data],
                  throws |-> NULL]

\* BrandConfig.getTaskConfig: {...defaultSettings, ...taskOverrides}
getTaskConfig(brandKey, taskType) ==
  LET b == getBrandConfig(brandKey)
  IN IF b.throws # NULL
       THEN [config |-> <<>>, cache |-> b.cache, throws |-> b.throws]
       ELSE LET brand == b.config[1]
                defaultSettings ==
                  IF HasKey(brand, "taskSettings")
                     /\ HasKey(brand.taskSettings, "default")
                    THEN brand.taskSettings.default
                    ELSE [priority |-> "medium", timeout |-> 60000,
                          retries |-> 3]
                taskOverrides ==
                  IF HasKey(brand, "taskSettings")
                     /\ HasKey(brand.taskSettings, "taskOverrides")
                     /\ HasKey(brand.taskSettings.taskOverrides, taskType)
                    THEN brand.taskSettings.taskOverrides[taskType]
                    ELSE NoParameters
            IN [config |-> <<Spread(defaultSettings, taskOverrides)>>,
                cache |-> b.cache, throws |-> NULL]

\* mutant of getTaskParameters: the brand's defaults win over the caller
getTaskParameters_BrandWins(brandKey, taskType, userParameters) ==
  LET t == getTaskConfig(brandKey, taskType)
  IN IF t.throws # NULL
       THEN [parameters |-> userParameters, cache |-> t.cache,
             throws |-> t.throws]
       ELSE [parameters |->
               Spread(userParameters,
                      IF HasKey(t.config[1], "parameters")
                        THEN t.config[1].parameters ELSE NoParameters),
             cache |-> t.cache, throws |-> NULL]

\* BrandConfig.getTaskParameters:
\* {...(taskConfig.parameters || {}), ...userParameters}
getTaskParameters(brandKey, taskType, userParameters) ==
  LET t == getTaskConfig(brandKey, taskType)
  IN IF t.throws # NULL
       THEN [parameters |-> userParameters, cache |-> t.cache,
             throws |-> t.throws]
       ELSE [parameters |->
               Spread(IF HasKey(t.config[1], "parameters")
                        THEN t.config[1].parameters ELSE NoParameters,
                      userParameters),
             cache |-> t.cache, throws |-> NULL]

(* ------------------------------ router -------------------------------- *)

\* TaskExecutor.getTaskDefinition: the tasks row of the type, or the error
\* the method throws
getTaskDefinition(taskType) ==
  LET q == Single({t \in tasksTable : t = taskType})
  IN IF q.error # NULL THEN [data |-> <<>>, throws |-> "TaskExecutionError"]
     ELSE IF q.data = <<>> THEN [data |-> <<>>, throws |-> "TaskNotFoundError"]
     ELSE [data |-> q.data, throws |-> NULL]

\* mutant of routeTask: the brand is not looked at
routeTask_IgnoresBrand(taskType, brand) ==
  LET agent == findAgentForTask(taskType)
  IN IF agent = NULL
       THEN [agentId |-> NULL, taskConfig |-> NULL, cache |-> configCache,
             throws |-> "TaskNotFoundError"]
       ELSE [agentId |-> AgentId(agent),
             taskConfig |-> [priority |-> "medium", timeout |-> 60000,
                             retries |-> 3],
             cache |-> configCache, throws |-> NULL]

\* TaskRouter.routeTask: the first capable agent, and the default task
\* config or, when a brand is named, the brand's config for the task type;
\* an error of the brand config is rethrown as a plain Error. cache is
\* configCache after the call
routeTask(taskType, brand) ==
  LET agent == findAgentForTask(taskType)
  IN IF agent = NULL
       THEN [agentId |-> NULL, taskConfig |-> NULL, cache |-> configCache,
             throws |-> "TaskNotFoundError"]
     ELSE IF brand = NoBrand
       THEN [agentId |-> AgentId(agent),
             taskConfig |-> [priority |-> "medium", timeout |-> 60000,
                             retries |-> 3],
             cache |-> configCache, throws |-> NULL]
     ELSE LET t == getTaskConfig(brand, taskType)
          IN IF t.throws # NULL
               THEN [agentId |-> NULL, taskConfig |-> NULL,
                     cache |-> t.cache, throws |-> "Error"]
               ELSE [agentId |-> AgentId(agent), taskConfig |-> t.config[1],
                     cache |-> t.cache, throws |-> NULL]

\* mutant of processTaskParameters: an error of the brand config is rethrown
processTaskParameters_Rethrows(taskType, parameters, brand) ==
  IF brand = NoBrand
    THEN [parameters |-> parameters, cache |-> configCache, throws |-> NULL]
    ELSE getTaskParameters(brand, taskType, parameters)

\* TaskRouter.processTaskParameters: the caller's parameters when no brand
\* is named or when getTaskParameters throws, else what it returns
processTaskParameters(taskType, parameters, brand) ==
  IF brand = NoBrand
    THEN [parameters |-> parameters, cache |-> configCache, throws |-> NULL]
    ELSE LET r == getTaskParameters(brand, taskType, parameters)
         IN IF r.throws # NULL
              THEN [parameters |-> parameters, cache |-> r.cache,
                    throws |-> NULL]
              ELSE r

(* ------------------------------- queue -------------------------------- *)

JobIds == 1..Len(jobs)

\* mutant of InsertByPriority: larger priority values go first
RECURSIVE InsertByPriority_Descending(_, _, _, _)
InsertByPriority_Descending(w, j, p, js) ==
  IF w = <<>> THEN <<j>>
  ELSE IF js[Head(w)].priority >= p
    THEN <<Head(w)>> \o InsertByPriority_Descending(Tail(w), j, p, js)
    ELSE <<j>> \o w

\* mutant of InsertByPriority: a job goes in front of the waiting jobs of
\* its own priority
RECURSIVE InsertByPriority_BeforeEqual(_, _, _, _)
InsertByPriority_BeforeEqual(w, j, p, js) ==
  IF w = <<>> THEN <<j>>
  ELSE IF js[Head(w)].priority < p
    THEN <<Head(w)>> \o InsertByPriority_BeforeEqual(Tail(w), j, p, js)
    ELSE <<j>> \o w

\* Bull's priority insertion into the wait list: a job goes behind every
\* waiting job whose priority value is not larger than its own
RECURSIVE InsertByPriority(_, _, _, _)
InsertByPriority(w, j, p, js) ==
  IF w = <<>> THEN <<j>>
  ELSE IF js[Head(w)].priority <= p
    THEN <<Head(w)>> \o InsertByPriority(Tail(w), j, p, js)
    ELSE <<j>> \o w

RemoveFromWait(w, j) == SelectSeq(w, LAMBDA x : x # j)

ActiveJobs == {j \in JobIds : jobs[j].state = "active"}

\* mutant of NewJob: the job does not carry the id of its own execution
NewJob_FirstExecution(executionId, data, priority) ==
  [executionId |-> 1, taskType |-> data.taskType,
   brand |-> data.brand, parameters |-> data.parameters,
   callback |-> data.callback, priority |-> getPriorityValue(priority),
   state |-> "waiting", attemptsMade |-> 0, leases |-> 0,
   pc |-> "none", context |-> NoParameters,
   result |-> NULL, error |-> NULL, delivery |-> NULL]

\* TaskQueue.addTask: queue.add(taskType, {executionId, ...data},
\* {priority: numericPriority}); the job id is Bull's counter
NewJob(executionId, data, priority) ==
  [executionId |-> executionId, taskType |-> data.taskType,
   brand |-> data.brand, parameters |-> data.parameters,
   callback |-> data.callback, priority |-> getPriorityValue(priority),
   state |-> "waiting", attemptsMade |-> 0, leases |-> 0,
   pc |-> "none", context |-> NoParameters,
   result |-> NULL, error |-> NULL, delivery |-> NULL]

(* ------------------------------- Init --------------------------------- *)

Init ==
  /\ registry = <<"a1">>
  /\ task_executions = [e \in ExecIds |-> NoRow]
  /\ agent_logs = {}
  /\ jobs = <<>>
  /\ wait = <<>>
  /\ submit = [e \in ExecIds |->
                 [pc |-> "idle", throws |-> NULL, taskType |-> NULL,
                  brand |-> NULL, parameters |-> NoParameters,
                  given |-> NULL, priority |-> NULL, callback |-> FALSE]]
  /\ cancel = [e \in ExecIds |->
                 [pc |-> "idle", returns |-> <<>>, phase |-> NULL]]
  /\ calls = [e \in ExecIds |-> 0]
  /\ callbacks = [e \in ExecIds |-> 0]
  /\ configCache = [b \in BrandKeys |->
                      IF b \in DOMAIN brandConfigs
                        THEN <<brandConfigs[b]>> ELSE <<>>]
  /\ storeUp = TRUE
  /\ brands = brandsTable
  /\ create = [c \in CreateIds |->
                 [pc |-> "idle", config |-> NoParameters, throws |-> NULL]]
  /\ limiter = [now |-> 1,
                requestCounts |-> [k \in RateKeys |->
                                     [count |-> 0, resetTime |-> 0]],
                passed |-> [k \in RateKeys |-> 0],
                answer |-> [k \in RateKeys |-> 0]]

(* ---------------------------- submitTask ------------------------------ *)

\* mutant of InsertExecution: the row is inserted as already running
InsertExecution_Running(taskType, agentId, parameters, priority) ==
  [task_type |-> taskType, agent_id |-> agentId, parameters |-> parameters,
   status |-> "running",
   priority |-> priority, result |-> NULL, error |-> NULL,
   started_at |-> 0, completed_at |-> 0]

\* the row submitTask inserts (executor.ts 59-68)
InsertExecution(taskType, agentId, parameters, priority) ==
  [task_type |-> taskType, agent_id |-> agentId, parameters |-> parameters,
   status |-> "pending",
   priority |-> priority, result |-> NULL, error |-> NULL,
   started_at |-> 0, completed_at |-> 0]

\* uuidv4(): an id no earlier submit has used
FreshId(e) ==
  /\ submit[e].pc = "idle"
  /\ \A d \in ExecIds : d < e => submit[d].pc # "idle"

\* submitTask up to the insert of the execution row (executor.ts 30-68):
\* getTaskDefinition, routeTask, processTaskParameters, effective priority,
\* insert; or the catch block when one of them throws. The brand config
\* caches the configs it fetched on the way. submit[e] keeps the arguments
\* of the call (given is the priority argument) and what was computed
SubmitTaskParams(e, taskType, brand, parameters, priority, callback) ==
  /\ FreshId(e)
  /\ LET def == getTaskDefinition(taskType)
         route == routeTask(taskType, brand)
         thrown == IF def.throws # NULL THEN def.throws ELSE route.throws
         processed == processTaskParameters(taskType, parameters, brand)
         effectivePriority ==
           IF priority # "" THEN priority
           ELSE IF HasKey(route.taskConfig, "priority")
                   /\ route.taskConfig.priority # ""
             THEN route.taskConfig.priority
           ELSE "medium"
     IN IF thrown # NULL
          THEN /\ submit' = [submit EXCEPT ![e] =
                     [@ EXCEPT !.pc = "raised", !.taskType = taskType,
                        !.brand = brand, !.given = priority,
                        !.throws = IF thrown \in {"TaskNotFoundError",
                                                  "AgentNotFoundError"}
                                     THEN thrown ELSE "TaskExecutionError"]]
               /\ configCache' = IF def.throws # NULL
                                   THEN configCache ELSE route.cache
               /\ UNCHANGED task_executions
          ELSE /\ task_executions' =
                    IF storeUp
                      THEN [task_executions EXCEPT ![e] =
                              InsertExecution(taskType, route.agentId,
                                              processed.parameters,
                                              effectivePriority)]
                      ELSE task_executions
               /\ submit' = [submit EXCEPT ![e] =
                     [@ EXCEPT !.pc = "inserted", !.taskType = taskType,
                        !.brand = brand, !.given = priority,
                        !.parameters = processed.parameters,
                        !.priority = effectivePriority,
                        !.callback = callback]]
               /\ configCache' = route.cache
  /\ UNCHANGED <<limiter, brands, create, storeUp, registry, agent_logs, jobs, wait, cancel, calls, callbacks>>

\* submitTask called with a task type, a priority and a callback only
SubmitTask(e, taskType, priority, callback) ==
  SubmitTaskParams(e, taskType, NoBrand, NoParameters, priority, callback)

\* await taskQueue.addTask(...) succeeds (executor.ts 70-78)
SubmitEnqueue(e) ==
  /\ submit[e].pc = "inserted"
  /\ LET job == NewJob(e, submit[e], submit[e].priority)
     IN /\ jobs' = Append(jobs, job)
        /\ wait' = InsertByPriority(wait, Len(jobs) + 1, job.priority, jobs)
  /\ submit' = [submit EXCEPT ![e].pc = "enqueued"]
  /\ UNCHANGED <<limiter, brands, create, storeUp, configCache, registry, task_executions, agent_logs, cancel, calls,
                 callbacks>>

\* queue.add rejects: addTask throws TaskExecutionError, and submitTask's
\* catch block rethrows it as TaskExecutionError (executor.ts 81-92)
SubmitEnqueueFails(e) ==
  /\ submit[e].pc = "inserted"
  /\ submit' = [submit EXCEPT ![e].pc = "raised",
                              ![e].throws = "TaskExecutionError"]
  /\ UNCHANGED <<limiter, brands, create, storeUp, configCache, registry, task_executions, agent_logs, jobs, wait, cancel,
                 calls, callbacks>>

\* return executionId (executor.ts 80)
SubmitReturn(e) ==
  /\ submit[e].pc = "enqueued"
  /\ submit' = [submit EXCEPT ![e].pc = "returned"]
  /\ UNCHANGED <<limiter, brands, create, storeUp, configCache, registry, task_executions, agent_logs, jobs, wait, cancel,
                 calls, callbacks>>

(* --------------------------- job processing --------------------------- *)

\* mutant of updateTaskStatus: completed_at is never written
updateTaskStatus_NoCompletedAt(executionId, status, result, error) ==
  LET base == [c \in {"status"} |-> status]
      withResult == IF result # NULL
                      THEN [c \in DOMAIN base \cup {"result"} |->
                              IF c = "result" THEN result ELSE base[c]]
                      ELSE base
      withError == IF error # NULL
                     THEN [c \in DOMAIN withResult \cup {"error"} |->
                             IF c = "error" THEN error ELSE withResult[c]]
                     ELSE withResult
  IN UpdateExecution(executionId, withError)

\* BaseAgent.updateTaskStatus: result and error are written only when
\* truthy, completed_at only with completed or failed
updateTaskStatus(executionId, status, result, error) ==
  LET base == [c \in {"status"} |-> status]
      withResult == IF result # NULL
                      THEN [c \in DOMAIN base \cup {"result"} |->
                              IF c = "result" THEN result ELSE base[c]]
                      ELSE base
      withError == IF error # NULL
                     THEN [c \in DOMAIN withResult \cup {"error"} |->
                             IF c = "error" THEN error ELSE withResult[c]]
                     ELSE withResult
  IN IF status \in {"completed", "failed"}
       THEN UpdateExecution(executionId,
              [c \in DOMAIN withError \cup {"completed_at"} |->
                 IF c = "completed_at" THEN Now(executionId)
                 ELSE withError[c]])
       ELSE UpdateExecution(executionId, withError)

\* mutant of sendCallback: a network error is thrown on to the processor
sendCallback_Rethrows(job, response) ==
  [callbacks |-> [callbacks EXCEPT ![job.executionId] = @ + 1],
   delivery |-> response,
   throws |-> IF response = "network_error" THEN "fetch failed" ELSE NULL]

\* TaskExecutor.sendCallback: one POST; a response that is not OK and an
\* error thrown by fetch are logged, nothing is thrown on
sendCallback(job, response) ==
  [callbacks |-> [callbacks EXCEPT ![job.executionId] = @ + 1],
   delivery |-> response,
   throws |-> NULL]

\* if (job.data.callback) await this.sendCallback(...)
CallbackIfGiven(job, response) ==
  IF job.callback
    THEN sendCallback(job, response)
    ELSE [callbacks |-> callbacks, delivery |-> NULL, throws |-> NULL]

\* what the fetch of a callback can come to: an OK response, a response
\* that is not OK, an error thrown. Without a callback URL nothing is
\* fetched.
ResponsesFor(job) ==
  IF job.callback THEN Responses ELSE {"ok"}

\* A worker slot of queue.process('*', 5, processor) takes the job at the
\* front of the wait list and starts the processor on it
Lease(j) ==
  /\ wait # <<>>
  /\ j = Head(wait)
  /\ Cardinality(ActiveJobs) < Concurrency
  /\ wait' = Tail(wait)
  /\ jobs' = [jobs EXCEPT ![j].state = "active", ![j].pc = "start",
                          ![j].leases = @ + 1,
                          ![j].result = NULL, ![j].error = NULL,
                          ![j].delivery = NULL]
  /\ UNCHANGED <<limiter, brands, create, storeUp, configCache, registry, task_executions, agent_logs, submit, cancel, calls,
                 callbacks>>

\* processor: status running and started_at, then the agent lookup, the
\* brand config when the job names a brand and, when both are found, the
\* call of agent.executeTask with the parameters of the job data
\* (executor.ts 245-287). context is the parameters of the TaskContext
ProcessStart(j) ==
  /\ j \in JobIds
  /\ jobs[j].pc = "start"
  /\ LET e == jobs[j].executionId
         agent == findAgentForTask(jobs[j].taskType)
         brandData == IF jobs[j].brand \in BrandKeys
                        THEN getBrandConfig(jobs[j].brand)
                        ELSE [config |-> <<>>, cache |-> configCache,
                              throws |-> NULL]
     IN /\ task_executions' = UpdateExecution(e,
              [status |-> "running", started_at |-> Now(e)])
        /\ IF agent = NULL
             THEN /\ jobs' = [jobs EXCEPT ![j].pc = "catch",
                                          ![j].error = NoAgentError]
                  /\ UNCHANGED <<calls, configCache>>
           ELSE IF brandData.throws # NULL
             THEN /\ jobs' = [jobs EXCEPT ![j].pc = "catch",
                                          ![j].error = brandData.throws]
                  /\ configCache' = brandData.cache
                  /\ UNCHANGED calls
             ELSE /\ jobs' = [jobs EXCEPT ![j].pc = "agent_start",
                                          ![j].context = jobs[j].parameters]
                  /\ calls' = [calls EXCEPT ![e] = @ + 1]
                  /\ configCache' = brandData.cache
  /\ UNCHANGED <<limiter, brands, create, storeUp, registry, agent_logs, wait, submit, cancel, callbacks>>

\* agent.executeTask: await this.updateTaskStatus(executionId, 'running'),
\* then the work starts and logs its activity
AgentStart(j) ==
  /\ j \in JobIds
  /\ jobs[j].pc = "agent_start"
  /\ task_executions' =
       updateTaskStatus(jobs[j].executionId, "running", NULL, NULL)
  /\ agent_logs' = agent_logs \cup
       {[execution_id |-> jobs[j].executionId, message |-> "Validating",
         jobId |-> 0]}
  /\ jobs' = [jobs EXCEPT ![j].pc = "agent_work"]
  /\ UNCHANGED <<limiter, brands, create, storeUp, configCache, registry, wait, submit, cancel, calls, callbacks>>

\* agent.executeTask: the work yields a result;
\* updateTaskStatus(executionId, 'completed', result); return result
AgentSucceeds(j) ==
  /\ j \in JobIds
  /\ jobs[j].pc = "agent_work"
  /\ task_executions' =
       updateTaskStatus(jobs[j].executionId, "completed", AgentResult, NULL)
  /\ jobs' = [jobs EXCEPT ![j].pc = "agent_returned",
                          ![j].result = AgentResult]
  /\ UNCHANGED <<limiter, brands, create, storeUp, configCache, registry, agent_logs, wait, submit, cancel, calls, callbacks>>

\* agent.executeTask: the work throws;
\* updateTaskStatus(executionId, 'failed', null, message); throw error
AgentFails(j) ==
  /\ j \in JobIds
  /\ jobs[j].pc = "agent_work"
  /\ task_executions' =
       updateTaskStatus(jobs[j].executionId, "failed", NULL, AgentError)
  /\ jobs' = [jobs EXCEPT ![j].pc = "catch", ![j].error = AgentError]
  /\ UNCHANGED <<limiter, brands, create, storeUp, configCache, registry, agent_logs, wait, submit, cancel, calls, callbacks>>

\* processor after the agent returned: status completed, result,
\* completed_at (executor.ts 289-297)
ProcessCompleted(j) ==
  /\ j \in JobIds
  /\ jobs[j].pc = "agent_returned"
  /\ LET e == jobs[j].executionId
     IN task_executions' = UpdateExecution(e,
          [status |-> "completed", result |-> jobs[j].result,
           completed_at |-> Now(e)])
  /\ jobs' = [jobs EXCEPT ![j].pc = "callback_completed"]
  /\ UNCHANGED <<limiter, brands, create, storeUp, configCache, registry, agent_logs, wait, submit, cancel, calls, callbacks>>

\* processor: callback, return result; Bull completes the job and, with
\* removeOnComplete, removes it (executor.ts 310-319). The callback is
\* sent inside the try block: an error thrown there goes to the catch block
ProcessReturn(j) ==
  /\ j \in JobIds
  /\ jobs[j].pc = "callback_completed"
  /\ \E response \in ResponsesFor(jobs[j]) :
       LET sent == CallbackIfGiven(jobs[j], response)
       IN /\ callbacks' = sent.callbacks
          /\ jobs' = IF sent.throws # NULL
                       THEN [jobs EXCEPT ![j].pc = "catch",
                                         ![j].error = sent.throws,
                                         ![j].delivery = sent.delivery]
                       ELSE [jobs EXCEPT ![j].pc = "none",
                                         ![j].state = "removed",
                                         ![j].delivery = sent.delivery]
  /\ UNCHANGED <<limiter, brands, create, storeUp, configCache, registry, task_executions, agent_logs, wait, submit, cancel,
                 calls>>

\* mutant of ProcessFailed: the catch block goes on to the callback without
\* its update of the row
ProcessFailed_NoWrite(j) ==
  /\ j \in JobIds
  /\ jobs[j].pc = "catch"
  /\ jobs' = [jobs EXCEPT ![j].pc = "callback_failed"]
  /\ UNCHANGED <<limiter, brands, create, storeUp, configCache, registry, task_executions, agent_logs,
                 wait, submit, cancel, calls, callbacks>>

\* processor's catch block: status failed, error, completed_at
\* (executor.ts 320-337)
ProcessFailed(j) ==
  /\ j \in JobIds
  /\ jobs[j].pc = "catch"
  /\ LET e == jobs[j].executionId
     IN task_executions' = UpdateExecution(e,
          [status |-> "failed", error |-> jobs[j].error,
           completed_at |-> Now(e)])
  /\ jobs' = [jobs EXCEPT ![j].pc = "callback_failed"]
  /\ UNCHANGED <<limiter, brands, create, storeUp, configCache, registry, agent_logs, wait, submit, cancel, calls, callbacks>>

\* mutant of AfterThrow: the attempt limit is compared off by one
AfterThrow_OneMore(job) ==
  [job EXCEPT !.pc = "none", !.attemptsMade = @ + 1,
              !.state = IF job.attemptsMade < MaxAttempts
                          THEN "delayed" ELSE "failed"]

\* Bull after the processor threw: one more attempt made; the job waits
\* out its backoff while attempts remain, and is failed for good otherwise
AfterThrow(job) ==
  [job EXCEPT !.pc = "none", !.attemptsMade = @ + 1,
              !.state = IF job.attemptsMade + 1 < MaxAttempts
                          THEN "delayed" ELSE "failed"]

\* processor's catch block: callback, throw error (executor.ts 344-353)
ProcessThrow(j) ==
  /\ j \in JobIds
  /\ jobs[j].pc = "callback_failed"
  /\ \E response \in ResponsesFor(jobs[j]) :
       LET sent == CallbackIfGiven(jobs[j], response)
       IN /\ callbacks' = sent.callbacks
          /\ jobs' = [jobs EXCEPT ![j] =
                       AfterThrow([@ EXCEPT
                         !.delivery = sent.delivery,
                         !.error = IF sent.throws # NULL
                                     THEN sent.throws ELSE @])]
  /\ UNCHANGED <<limiter, brands, create, storeUp, configCache, registry, task_executions, agent_logs, wait, submit, cancel,
                 calls>>

\* Bull: the backoff delay of a job has passed, it waits for a lease again
Promote(j) ==
  /\ j \in JobIds
  /\ jobs[j].state = "delayed"
  /\ jobs' = [jobs EXCEPT ![j].state = "waiting"]
  /\ wait' = InsertByPriority(wait, j, jobs[j].priority, jobs)
  /\ UNCHANGED <<limiter, brands, create, storeUp, configCache, registry, task_executions, agent_logs, submit, cancel, calls,
                 callbacks>>

(* ----------------------------- cancelTask ----------------------------- *)

\* TaskQueue.cancelJob: false for a job that is gone, completed or failed;
\* job.remove() otherwise, which Bull refuses (throws) for a job a worker
\* holds
cancelJob(jobId) ==
  IF jobId \notin JobIds \/ jobs[jobId].state = "removed"
    THEN [jobs |-> jobs, wait |-> wait, returns |-> FALSE, throws |-> NULL]
  ELSE IF jobs[jobId].state = "failed"
    THEN [jobs |-> jobs, wait |-> wait, returns |-> FALSE, throws |-> NULL]
  ELSE IF jobs[jobId].state = "active"
    THEN [jobs |-> jobs, wait |-> wait, returns |-> FALSE,
          throws |-> "Could not remove job"]
  ELSE [jobs |-> [jobs EXCEPT ![jobId].state = "removed"],
        wait |-> RemoveFromWait(wait, jobId),
        returns |-> TRUE, throws |-> NULL]

\* cancelTask, query for the job id of the execution (executor.ts 200-206):
\* the agent_logs row of the execution whose message is
\* 'Task added to queue'
SelectQueuedLog(executionId) ==
  Single({r \in agent_logs : /\ r.execution_id = executionId
                             /\ r.message = "Task added to queue"})

\* cancelTask calls made so far, returned or not
RECURSIVE SumCancels(_)
SumCancels(S) ==
  IF S = {} THEN 0
  ELSE LET e == CHOOSE x \in S : TRUE
       IN Len(cancel[e].returns) + (IF cancel[e].pc = "idle" THEN 0 ELSE 1)
          + SumCancels(S \ {e})

CancelCalls == SumCancels(ExecIds)

CancelReturn(e, value) ==
  cancel' = [cancel EXCEPT ![e].pc = "idle",
                           ![e].returns = Append(@, value)]

\* where the job of an execution stands: never leased, inside
\* agent.executeTask, or anywhere else
JobPhase(e) ==
  IF \E j \in JobIds : /\ jobs[j].executionId = e
                       /\ jobs[j].state = "waiting"
                       /\ jobs[j].attemptsMade = 0
    THEN "unleased"
  ELSE IF \E j \in JobIds : /\ jobs[j].executionId = e
                            /\ jobs[j].pc \in {"agent_start", "agent_work"}
    THEN "agent"
  ELSE "other"

\* mutant of cancelTaskCheck: only a completed execution is refused
cancelTaskCheck_OnlyCompleted(e) ==
  /\ cancel[e].pc = "idle"
  /\ submit[e].pc \in {"idle", "returned"}
  /\ LET q == SelectExecution(e)
     IN IF q.error # NULL
          THEN CancelReturn(e, "TaskExecutionError")
        ELSE IF q.data = <<>>
          THEN CancelReturn(e, "TaskNotFoundError")
        ELSE IF q.data[1].status = "completed"
          THEN CancelReturn(e, "false")
        ELSE cancel' = [cancel EXCEPT ![e].pc = "checked"]
  /\ UNCHANGED <<limiter, brands, create, storeUp, configCache, registry, task_executions, agent_logs, jobs, wait, submit,
                 calls, callbacks>>

\* cancelTask up to the status check (executor.ts 178-198). Callers hold
\* the ids submitTask returned; any other id they pass names no row.
cancelTaskCheck(e) ==
  /\ cancel[e].pc = "idle"
  /\ submit[e].pc \in {"idle", "returned"}
  /\ LET q == SelectExecution(e)
     IN IF q.error # NULL
          THEN CancelReturn(e, "TaskExecutionError")
        ELSE IF q.data = <<>>
          THEN CancelReturn(e, "TaskNotFoundError")
        ELSE IF q.data[1].status \notin {"pending", "running"}
          THEN CancelReturn(e, "false")
        ELSE cancel' = [cancel EXCEPT ![e].pc = "checked"]
  /\ UNCHANGED <<limiter, brands, create, storeUp, configCache, registry, task_executions, agent_logs, jobs, wait, submit,
                 calls, callbacks>>

\* a cancelTask call, while the behaviour has calls left
CancelCheck(e) ==
  /\ CancelCalls < MaxCancels
  /\ cancelTaskCheck(e)

\* cancelTask after the status check (executor.ts 200-228): cancelJob when
\* the log row names a job id, then status cancelled and completed_at; an
\* error of that update is thrown as TaskExecutionError
CancelWrite(e) ==
  /\ cancel[e].pc = "checked"
  /\ LET log == SelectQueuedLog(e)
         hasJobId == log.error = NULL /\ log.data # <<>> /\ log.data[1].jobId # 0
         removal == IF hasJobId THEN cancelJob(log.data[1].jobId)
                    ELSE [jobs |-> jobs, wait |-> wait, returns |-> FALSE,
                          throws |-> NULL]
     IN /\ jobs' = removal.jobs
        /\ wait' = removal.wait
        /\ IF removal.throws # NULL \/ ~storeUp
             THEN /\ CancelReturn(e, "TaskExecutionError")
                  /\ UNCHANGED task_executions
             ELSE /\ task_executions' = UpdateExecution(e,
                       [status |-> "cancelled", completed_at |-> Now(e)])
                  /\ cancel' = [cancel EXCEPT
                       ![e].pc = "idle",
                       ![e].returns = Append(@, "true"),
                       ![e].phase = JobPhase(e)]
  /\ UNCHANGED <<limiter, brands, create, storeUp, configCache, registry, agent_logs, submit, calls, callbacks>>

(* ------------------------------ registry ------------------------------ *)

RegisterAgent(a) ==
  /\ registerAgent(a).agents # registry
  /\ registry' = registerAgent(a).agents
  /\ UNCHANGED <<limiter, brands, create, storeUp, configCache, task_executions, agent_logs, jobs, wait,
                 submit, cancel, calls, callbacks>>

UnregisterAgent(a) ==
  /\ unregisterAgent(a) # registry
  /\ registry' = unregisterAgent(a)
  /\ UNCHANGED <<limiter, brands, create, storeUp, configCache, task_executions, agent_logs, jobs, wait,
                 submit, cancel, calls, callbacks>>

(* ------------------------------- Next --------------------------------- *)

Next ==
  \/ \E e \in ExecIds, r \in Requests :
       SubmitTask(e, r.taskType, r.priority, r.callback)
  \/ \E e \in ExecIds : SubmitEnqueue(e)
  \/ \E e \in ExecIds : SubmitEnqueueFails(e)
  \/ \E e \in ExecIds : SubmitReturn(e)
  \/ \E j \in JobSlots : Lease(j)
  \/ \E j \in JobSlots : ProcessStart(j)
  \/ \E j \in JobSlots : AgentStart(j)
  \/ \E j \in JobSlots : AgentSucceeds(j)
  \/ \E j \in JobSlots : AgentFails(j)
  \/ \E j \in JobSlots : ProcessCompleted(j)
  \/ \E j \in JobSlots : ProcessReturn(j)
  \/ \E j \in JobSlots : ProcessFailed(j)
  \/ \E j \in JobSlots : ProcessThrow(j)
  \/ \E j \in JobSlots : Promote(j)
  \/ \E e \in ExecIds : CancelCheck(e)
  \/ \E e \in ExecIds : CancelWrite(e)

Spec == Init /\ [][Next]_vars

(* ---------- one execution, cancelled repeatedly, agents changing ------- *)

\* number of cancelTask calls made on one executionId
MaxRepeat == 2

\* the only submitTask call of the behaviour
SubmitOnly(e, taskType, priority, callback) ==
  /\ \A d \in ExecIds : submit[d].pc = "idle"
  /\ SubmitTask(e, taskType, priority, callback)

\* a cancelTask call on an executionId that has calls left
CancelAgain(e) ==
  /\ Len(cancel[e].returns) + (IF cancel[e].pc = "idle" THEN 0 ELSE 1)
       < MaxRepeat
  /\ cancelTaskCheck(e)

NextOne ==
  \/ \E e \in ExecIds, r \in Requests :
       SubmitOnly(e, r.taskType, r.priority, r.callback)
  \/ \E e \in ExecIds : SubmitEnqueue(e)
  \/ \E e \in ExecIds : SubmitEnqueueFails(e)
  \/ \E e \in ExecIds : SubmitReturn(e)
  \/ \E j \in JobSlots : Lease(j)
  \/ \E j \in JobSlots : ProcessStart(j)
  \/ \E j \in JobSlots : AgentStart(j)
  \/ \E j \in JobSlots : AgentSucceeds(j)
  \/ \E j \in JobSlots : AgentFails(j)
  \/ \E j \in JobSlots : ProcessCompleted(j)
  \/ \E j \in JobSlots : ProcessReturn(j)
  \/ \E j \in JobSlots : ProcessFailed(j)
  \/ \E j \in JobSlots : ProcessThrow(j)
  \/ \E j \in JobSlots : Promote(j)
  \/ \E e \in ExecIds : CancelAgain(e)
  \/ \E e \in ExecIds : CancelWrite(e)
  \/ \E a \in AgentIds : RegisterAgent(a)
  \/ \E a \in AgentIds : UnregisterAgent(a)

SpecOne == Init /\ [][NextOne]_vars

(* ------------- the registry changing under submitTask calls ----------- *)

NextRegistry ==
  \/ \E a \in Agents : RegisterAgent(a)
  \/ \E a \in Agents : UnregisterAgent(AgentId(a))
  \/ \E e \in ExecIds, r \in Requests :
       SubmitOnly(e, r.taskType, r.priority, r.callback)
  \/ \E e \in ExecIds : SubmitEnqueue(e)
  \/ \E e \in ExecIds : SubmitEnqueueFails(e)
  \/ \E e \in ExecIds : SubmitReturn(e)

SpecRegistry == Init /\ [][NextRegistry]_vars

(* ------------------- requests of brands over the API ----------------- *)

\* bodies of POST /agent/run that pass taskRequestSchema ("" is a missing
\* brand or priority)
Bodies ==
  [task : TaskTypes, brand : {NoBrand} \cup BrandKeys,
   parameters : CallerParameters, priority : {"", "low", "high"}]

\* validateTaskRequest: Joi fills a missing priority with its default
validateTaskRequest(body) ==
  [body EXCEPT !.priority = IF @ = "" THEN "medium" ELSE @]

\* the handler of POST /agent/run: validateTaskRequest, then
\* taskExecutor.submitTask with priority: priority || 'medium'
PostRun(e, body) ==
  LET validated == validateTaskRequest(body)
  IN SubmitTaskParams(e, validated.task, validated.brand,
                      validated.parameters,
                      IF validated.priority # "" THEN validated.priority
                                                  ELSE "medium",
                      FALSE)

NextBrand ==
  \/ \E e \in ExecIds, body \in Bodies : PostRun(e, body)
  \/ \E e \in ExecIds : SubmitEnqueue(e)
  \/ \E e \in ExecIds : SubmitEnqueueFails(e)
  \/ \E e \in ExecIds : SubmitReturn(e)

SpecBrand == Init /\ [][NextBrand]_vars

(* -------- requests of brands processed, brand configs updated -------- *)

\* configs that pass brandConfigSchema and are given to updateBrandConfig
ValidatedConfigs ==
  { [taskSettings |->
       [default |-> [priority |-> "low", timeout |-> 60000, retries |-> 3],
        taskOverrides |->
          [echo |-> [parameters |-> [trackCount |-> 99,
                                     genre |-> "techno"]]]]] }

\* BrandConfig.updateBrandConfig: the validated config, with the key of the
\* brand, replaces the cached one (the `brands` row it also updates is read
\* only for keys the cache does not hold)
UpdateBrandConfig(b, config) ==
  /\ configCache' = [configCache EXCEPT ![b] = <<Spread(config, [key |-> b])>>]
  /\ UNCHANGED <<limiter, brands, create, storeUp, registry, task_executions, agent_logs, jobs, wait, submit,
                 cancel, calls, callbacks>>

\* bodies of POST /agent/run for one task type, priority left out
ParameterBodies == {body \in Bodies : body.task = "echo" /\ body.priority = ""}

\* brands whose config is updated
UpdatedBrands == {"edmShuffle"}

\* the one POST /agent/run of a behaviour
PostRunOnly(e, body) ==
  /\ \A d \in ExecIds : submit[d].pc = "idle"
  /\ PostRun(e, body)

NextParameters ==
  \/ \E e \in ExecIds, body \in ParameterBodies : PostRunOnly(e, body)
  \/ \E e \in ExecIds : SubmitEnqueue(e)
  \/ \E e \in ExecIds : SubmitEnqueueFails(e)
  \/ \E e \in ExecIds : SubmitReturn(e)
  \/ \E j \in JobSlots : Lease(j)
  \/ \E j \in JobSlots : ProcessStart(j)
  \/ \E j \in JobSlots : AgentStart(j)
  \/ \E j \in JobSlots : AgentSucceeds(j)
  \/ \E j \in JobSlots : AgentFails(j)
  \/ \E j \in JobSlots : ProcessCompleted(j)
  \/ \E j \in JobSlots : ProcessReturn(j)
  \/ \E j \in JobSlots : ProcessFailed(j)
  \/ \E j \in JobSlots : ProcessThrow(j)
  \/ \E j \in JobSlots : Promote(j)
  \/ \E e \in ExecIds : CancelCheck(e)
  \/ \E e \in ExecIds : CancelWrite(e)
  \/ \E b \in UpdatedBrands, config \in ValidatedConfigs :
       UpdateBrandConfig(b, config)

SpecParameters == Init /\ [][NextParameters]_vars

(* ------------------- brands created concurrently --------------------- *)

\* configs given to createBrandConfig, as brandConfigSchema leaves them: the
\* static config initializeBrands creates at start-up, and one for the key
\* of a brand the table holds already
CreatedConfigs ==
  { edmShuffle,
    [key |-> "dbBrand",
     taskSettings |->
       [default |-> [priority |-> "high", timeout |-> 60000, retries |-> 3],
        taskOverrides |-> NoParameters]] }

\* createBrandConfig up to its check for a row of the key (part_006 74-87):
\* BrandConfigError when the select finds one
CreateCheck(c, config) ==
  /\ create[c].pc = "idle"
  /\ \A d \in CreateIds : d < c => create[d].pc # "idle"
  /\ LET q == SelectBrand(config.key)
     IN IF q.error = NULL /\ q.data # <<>>
          THEN create' = [create EXCEPT ![c] =
                 [pc |-> "done", config |-> config,
                  throws |-> "BrandConfigError"]]
          ELSE create' = [create EXCEPT ![c] =
                 [pc |-> "checked", config |-> config, throws |-> NULL]]
  /\ UNCHANGED <<limiter, brands, storeUp, configCache, registry, task_executions,
                 agent_logs, jobs, wait, submit, cancel, calls, callbacks>>

\* createBrandConfig after the check (part_006 89-105): the insert, and the
\* config put into the cache; BrandConfigError when the insert reports an
\* error
CreateInsert(c) ==
  /\ create[c].pc = "checked"
  /\ IF storeUp
       THEN /\ brands' = Append(brands, create[c].config)
            /\ configCache' = [configCache EXCEPT ![create[c].config.key] =
                                 <<create[c].config>>]
            /\ create' = [create EXCEPT ![c].pc = "done"]
       ELSE /\ create' = [create EXCEPT ![c].pc = "done",
                                       ![c].throws = "BrandConfigError"]
            /\ UNCHANGED <<brands, configCache>>
  /\ UNCHANGED <<limiter, storeUp, registry, task_executions, agent_logs, jobs, wait,
                 submit, cancel, calls, callbacks>>

\* the store turns the insert down (part_006 94-99)
CreateInsertRejected(c) ==
  /\ create[c].pc = "checked"
  /\ create' = [create EXCEPT ![c].pc = "done",
                              ![c].throws = "BrandConfigError"]
  /\ UNCHANGED <<limiter, brands, storeUp, configCache, registry, task_executions,
                 agent_logs, jobs, wait, submit, cancel, calls, callbacks>>

NextCreate ==
  \/ \E c \in CreateIds, config \in CreatedConfigs : CreateCheck(c, config)
  \/ \E c \in CreateIds : CreateInsert(c)
  \/ \E c \in CreateIds : CreateInsertRejected(c)
  \/ \E e \in ExecIds, body \in ParameterBodies : PostRunOnly(e, body)
  \/ \E e \in ExecIds : SubmitEnqueue(e)
  \/ \E e \in ExecIds : SubmitEnqueueFails(e)
  \/ \E e \in ExecIds : SubmitReturn(e)

SpecCreate == Init /\ [][NextCreate]_vars

(* --------------------------- rate limiting --------------------------- *)

\* mutant of rateLimit: the request that reaches max is turned down already
rateLimit_OffByOne(key, now, requestCounts) ==
  LET entry == IF requestCounts[key].resetTime = 0
                  \/ now > requestCounts[key].resetTime
                 THEN [count |-> 0, resetTime |-> now + RateLimitWindow]
                 ELSE requestCounts[key]
      counted == [entry EXCEPT !.count = @ + 1]
  IN [requestCounts |-> [requestCounts EXCEPT ![key] = counted],
      opened |-> entry.count = 0,
      status |-> IF counted.count >= RateLimitMax THEN RateLimitStatus ELSE 0]

\* the middleware rateLimit returns, for one request (rateLimit.ts 27-62):
\* a fresh counter when the key has none or its resetTime has passed, the
\* count raised by one, and status 0 for next() or the status of
\* RateLimitError when the count is over max
rateLimit(key, now, requestCounts) ==
  LET entry == IF requestCounts[key].resetTime = 0
                  \/ now > requestCounts[key].resetTime
                 THEN [count |-> 0, resetTime |-> now + RateLimitWindow]
                 ELSE requestCounts[key]
      counted == [entry EXCEPT !.count = @ + 1]
  IN [requestCounts |-> [requestCounts EXCEPT ![key] = counted],
      opened |-> entry.count = 0,
      status |-> IF counted.count > RateLimitMax THEN RateLimitStatus ELSE 0]

\* a request of a key comes in
Request(key) ==
  /\ limiter.requestCounts[key].count < MaxBurst
  /\ LET r == rateLimit(key, limiter.now, limiter.requestCounts)
     IN limiter' = [limiter EXCEPT
          !.requestCounts = r.requestCounts,
          !.passed[key] = (IF r.opened THEN 0 ELSE @)
                          + (IF r.status = 0 THEN 1 ELSE 0),
          !.answer[key] = r.status]
  /\ UNCHANGED <<brands, create, storeUp, configCache, registry,
                 task_executions, agent_logs, jobs, wait, submit, cancel,
                 calls, callbacks>>

\* time passes
Tick ==
  /\ limiter.now < MaxTime
  /\ limiter' = [limiter EXCEPT !.now = @ + 1]
  /\ UNCHANGED <<brands, create, storeUp, configCache, registry,
                 task_executions, agent_logs, jobs, wait, submit, cancel,
                 calls, callbacks>>

NextRateLimit ==
  \/ \E key \in RateKeys : Request(key)
  \/ Tick

SpecRateLimit == Init /\ [][NextRateLimit]_vars

(* ------------------- the store failing and recovering ---------------- *)

\* the store stops answering: from here every request to it reports an error
StoreFails ==
  /\ storeUp
  /\ storeUp' = FALSE
  /\ UNCHANGED <<limiter, brands, create, registry, task_executions, agent_logs, jobs,
                 wait, submit, cancel, calls, callbacks, configCache>>

\* the store answers again
StoreRecovers ==
  /\ ~storeUp
  /\ storeUp' = TRUE
  /\ UNCHANGED <<limiter, brands, create, registry, task_executions, agent_logs, jobs,
                 wait, submit, cancel, calls, callbacks, configCache>>

NextFault ==
  \/ \E e \in ExecIds, r \in Requests :
       SubmitOnly(e, r.taskType, r.priority, r.callback)
  \/ \E e \in ExecIds : SubmitEnqueue(e)
  \/ \E e \in ExecIds : SubmitEnqueueFails(e)
  \/ \E e \in ExecIds : SubmitReturn(e)
  \/ \E j \in JobSlots : Lease(j)
  \/ \E j \in JobSlots : ProcessStart(j)
  \/ \E j \in JobSlots : AgentStart(j)
  \/ \E j \in JobSlots : AgentSucceeds(j)
  \/ \E j \in JobSlots : AgentFails(j)
  \/ \E j \in JobSlots : ProcessCompleted(j)
  \/ \E j \in JobSlots : ProcessReturn(j)
  \/ \E j \in JobSlots : ProcessFailed(j)
  \/ \E j \in JobSlots : ProcessThrow(j)
  \/ \E j \in JobSlots : Promote(j)
  \/ \E e \in ExecIds : CancelCheck(e)
  \/ \E e \in ExecIds : CancelWrite(e)
  \/ StoreFails
  \/ StoreRecovers

SpecFault == Init /\ [][NextFault]_vars

(* ---------------------- fair worker loops, getTaskResult -------------- *)

\* TaskExecutor.getTaskStatus: what the call returns or throws
getTaskStatus(executionId) ==
  LET q == SelectExecution(executionId)
      none == [throws |-> NULL, status |-> NULL, startedAt |-> 0,
               completedAt |-> 0]
  IN IF q.error # NULL THEN [none EXCEPT !.throws = "TaskExecutionError"]
     ELSE IF q.data = <<>> THEN [none EXCEPT !.throws = "TaskNotFoundError"]
     ELSE [none EXCEPT !.status = q.data[1].status,
                       !.startedAt = q.data[1].started_at,
                       !.completedAt = q.data[1].completed_at]

\* mutant of getTaskResult: the answer carries result and error whatever
\* the status is
getTaskResult_AlwaysFields(executionId) ==
  LET q == SelectExecution(executionId)
      none == [throws |-> NULL, status |-> NULL, message |-> NULL,
               result |-> NULL, error |-> NULL, completedAt |-> 0]
  IN IF q.error # NULL THEN [none EXCEPT !.throws = "TaskExecutionError"]
     ELSE IF q.data = <<>> THEN [none EXCEPT !.throws = "TaskNotFoundError"]
     ELSE [none EXCEPT !.status = q.data[1].status,
                       !.message = "Task execution is still in progress",
                       !.result = q.data[1].result,
                       !.error = q.data[1].error,
                       !.completedAt = q.data[1].completed_at]

\* mutant of getTaskResult: a cancelled execution counts as finished
getTaskResult_CancelledIsFinished(executionId) ==
  LET q == SelectExecution(executionId)
      none == [throws |-> NULL, status |-> NULL, message |-> NULL,
               result |-> NULL, error |-> NULL, completedAt |-> 0]
  IN IF q.error # NULL THEN [none EXCEPT !.throws = "TaskExecutionError"]
     ELSE IF q.data = <<>> THEN [none EXCEPT !.throws = "TaskNotFoundError"]
     ELSE IF q.data[1].status \notin {"completed", "failed", "cancelled"}
       THEN [none EXCEPT !.status = q.data[1].status,
                         !.message = "Task execution is still in progress"]
     ELSE [none EXCEPT !.status = q.data[1].status,
                       !.result = q.data[1].result,
                       !.error = q.data[1].error,
                       !.completedAt = q.data[1].completed_at]

\* mutant of getTaskResult: only a failed execution counts as finished
getTaskResult_OnlyFailed(executionId) ==
  LET q == SelectExecution(executionId)
      none == [throws |-> NULL, status |-> NULL, message |-> NULL,
               result |-> NULL, error |-> NULL, completedAt |-> 0]
  IN IF q.error # NULL THEN [none EXCEPT !.throws = "TaskExecutionError"]
     ELSE IF q.data = <<>> THEN [none EXCEPT !.throws = "TaskNotFoundError"]
     ELSE IF q.data[1].status # "failed"
       THEN [none EXCEPT !.status = q.data[1].status,
                         !.message = "Task execution is still in progress"]
     ELSE [none EXCEPT !.status = q.data[1].status,
                       !.result = q.data[1].result,
                       !.error = q.data[1].error,
                       !.completedAt = q.data[1].completed_at]

\* TaskExecutor.getTaskResult: what the call returns or throws (fields the
\* answer does not have are null)
getTaskResult(executionId) ==
  LET q == SelectExecution(executionId)
      none == [throws |-> NULL, status |-> NULL, message |-> NULL,
               result |-> NULL, error |-> NULL, completedAt |-> 0]
  IN IF q.error # NULL THEN [none EXCEPT !.throws = "TaskExecutionError"]
     ELSE IF q.data = <<>> THEN [none EXCEPT !.throws = "TaskNotFoundError"]
     ELSE IF q.data[1].status # "completed" /\ q.data[1].status # "failed"
       THEN [none EXCEPT !.status = q.data[1].status,
                         !.message = "Task execution is still in progress"]
     ELSE [none EXCEPT !.status = q.data[1].status,
                       !.result = q.data[1].result,
                       !.error = q.data[1].error,
                       !.completedAt = q.data[1].completed_at]

\* one of the concurrent runs of the processor Bull keeps going: whatever
\* comes next for job j, from its lease to the end of the attempt and the
\* promotion after a backoff
Worker(j) ==
  \/ Lease(j)
  \/ ProcessStart(j)
  \/ AgentStart(j)
  \/ AgentSucceeds(j)
  \/ AgentFails(j)
  \/ ProcessCompleted(j)
  \/ ProcessReturn(j)
  \/ ProcessFailed(j)
  \/ ProcessThrow(j)
  \/ Promote(j)

\* the worker loops are scheduled fairly: a job whose next step stays
\* possible gets it (awaited promises settle, timers fire, a free worker
\* takes the front of the wait list)
SpecFair ==
  Init /\ [][NextOne]_vars /\ \A j \in JobSlots : WF_vars(Worker(j))

(* ------------- the queue alone: priorities and lease order ------------ *)

\* number of addTask calls made in a behaviour
MaxJobs == 3
QueueSlots == 1..MaxJobs

\* priority arguments addTask is called with
Priorities == {"highest", "high", "medium", "low", "lowest"}

\* TaskQueue.addTask called directly: the job carries the data it is given
AddTask(priority) ==
  /\ Len(jobs) < MaxJobs
  /\ LET job == NewJob(Len(jobs) + 1,
                       [taskType |-> "echo", brand |-> NoBrand,
                        parameters |-> NoParameters, callback |-> FALSE],
                       priority)
     IN /\ jobs' = Append(jobs, job)
        /\ wait' = InsertByPriority(wait, Len(jobs) + 1, job.priority, jobs)
  /\ UNCHANGED <<limiter, brands, create, storeUp, configCache, registry, task_executions, agent_logs, submit, cancel, calls,
                 callbacks>>

\* the processor given to processTask resolves: Bull completes the job and,
\* with removeOnComplete, removes it
JobCompletes(j) ==
  /\ j \in JobIds
  /\ jobs[j].state = "active"
  /\ jobs' = [jobs EXCEPT ![j].pc = "none", ![j].state = "removed"]
  /\ UNCHANGED <<limiter, brands, create, storeUp, configCache, registry, task_executions, agent_logs, wait, submit, cancel,
                 calls, callbacks>>

\* the processor given to processTask rejects
JobThrows(j) ==
  /\ j \in JobIds
  /\ jobs[j].state = "active"
  /\ jobs' = [jobs EXCEPT ![j] = AfterThrow(@)]
  /\ UNCHANGED <<limiter, brands, create, storeUp, configCache, registry, task_executions, agent_logs, wait, submit, cancel,
                 calls, callbacks>>

NextQueue ==
  \/ \E p \in Priorities : AddTask(p)
  \/ \E j \in QueueSlots : Lease(j)
  \/ \E j \in QueueSlots : JobCompletes(j)
  \/ \E j \in QueueSlots : JobThrows(j)
  \/ \E j \in QueueSlots : Promote(j)

SpecQueue == Init /\ [][NextQueue]_vars

(* ===================================================================== *)
(* Properties                                                            *)
(* ===================================================================== *)

Row(e) == task_executions[e]
HasRow(e) == Row(e).status # NULL
JobsOf(e) == {j \in JobIds : jobs[j].executionId = e}
LiveJobsOf(e) == {j \in JobIds : jobs[j].executionId = e
                                 /\ jobs[j].state # "removed"}
Returned(e, value) ==
  \E i \in 1..Len(cancel[e].returns) : cancel[e].returns[i] = value

ValidTransitions ==
  { <<"pending", "running">>, <<"running", "completed">>,
    <<"running", "failed">>, <<"pending", "cancelled">>,
    <<"running", "cancelled">> }

\* C1: every change of the status of an execution record is one of
\* pending->running, running->completed, running->failed,
\* pending->cancelled, running->cancelled (the insert of the row aside), so
\* a completed, failed or cancelled record never changes status again.
C1_OnlyValidTransitions ==
  [][\A e \in ExecIds :
       (HasRow(e) /\ Row(e)'.status # Row(e).status)
         => <<Row(e).status, Row(e)'.status>> \in ValidTransitions]_vars

\* C2: when the enqueue fails after the row was inserted, submit marks the
\* row failed with an error and raises TaskExecutionError; once submit has
\* returned or raised, no row is pending without a job in the queue.
C2_NoOrphanPending ==
  \A e \in ExecIds :
    /\ (submit[e].pc = "raised" /\ HasRow(e))
         => /\ submit[e].throws = "TaskExecutionError"
            /\ Row(e).status = "failed"
            /\ Row(e).error # NULL
    /\ (submit[e].pc \in {"returned", "raised"} /\ Row(e).status = "pending")
         => LiveJobsOf(e) # {}

\* C3: a submit whose task type no registered agent can execute raises the
\* not-routable error (TaskNotFoundError in the code), creates no row and
\* enqueues no job.
C3_UnroutableRejected ==
  \A e \in ExecIds :
    (submit[e].pc # "idle" /\ findAgentForTask(submit[e].taskType) = NULL)
      => /\ submit[e].pc = "raised"
         /\ submit[e].throws = "TaskNotFoundError"
         /\ ~HasRow(e)
         /\ JobsOf(e) = {}

C6_ResultErrorExclusive ==
  \A e \in ExecIds :
    HasRow(e) =>
      /\ ~(Row(e).result # NULL /\ Row(e).error # NULL)
      /\ Row(e).status \in {"pending", "running"}
           => (Row(e).result = NULL /\ Row(e).error = NULL)

\* C7: while an attempt that is not the last one is under way, or the job
\* waits for a further attempt, the processor has not written failed and
\* the row does not show failed: the failed write happens for the final
\* attempt only.
C7_FailedOnlyOnFinalAttempt ==
  \A j \in JobIds :
    (jobs[j].state \in {"active", "delayed", "waiting"}
       /\ jobs[j].attemptsMade + 1 < MaxAttempts)
      => /\ jobs[j].pc # "callback_failed"
         /\ Row(jobs[j].executionId).status # "failed"

\* the processor has thrown on every finished attempt of the job
AlwaysThrew(j) ==
  jobs[j].attemptsMade = jobs[j].leases
                           - (IF jobs[j].state = "active" THEN 1 ELSE 0)

\* C8: a job whose processor throws on every attempt is handed to it at
\* most MaxAttempts times, and is failed for good exactly when it has been
\* handed to it MaxAttempts times and the last of these attempts has thrown.
C8_ExactlyMaxAttempts ==
  \A j \in JobIds :
    AlwaysThrew(j) =>
      /\ jobs[j].leases <= MaxAttempts
      /\ jobs[j].state = "failed"
           <=> (jobs[j].leases = MaxAttempts /\ jobs[j].state # "active")

\* C8 witness: a job has been failed for good after throwing every time
C8_Witness ==
  \E j \in JobIds : jobs[j].state = "failed" /\ AlwaysThrew(j)

\* C9: when cancel returned true for an execution whose job no worker had
\* leased, the job is gone from the queue, the agent is never invoked for
\* the execution and the status stays cancelled.
C9_CancelBeforeLease ==
  \A e \in ExecIds :
    (Returned(e, "true") /\ cancel[e].phase = "unleased")
      => /\ LiveJobsOf(e) = {}
         /\ calls[e] = 0
         /\ Row(e).status = "cancelled"

\* C10: when cancel returned true while the agent call of the execution
\* was in flight, the row stays cancelled after the agent call finishes.
C10_CancelDuringAgentCall ==
  \A e \in ExecIds :
    (Returned(e, "true") /\ cancel[e].phase = "agent")
      => Row(e).status = "cancelled"

\* C11: once cancel has returned true for an execution, the queue hands
\* the job of that execution to no worker any more: no step after the
\* return raises the number of leases of the job.
C11_NoLeaseAfterCancel ==
  [][\A j \in JobIds :
       Returned(jobs[j].executionId, "true")
         => jobs'[j].leases = jobs[j].leases]_vars

\* a cancelTask call on e starts at this step / returns at this step
CancelCalled(e) == cancel[e].pc = "idle" /\ cancel'[e] # cancel[e]
CancelReturned(e) == Len(cancel'[e].returns) = Len(cancel[e].returns) + 1

\* C12: of two successive cancelTask calls on the id of an execution that
\* is pending or running, the first returns true and the second false,
\* and neither throws, whatever the workers do between the calls: a call
\* that finds the row pending or running returns true, and the call that
\* follows a call that returned true returns false.
C12_TrueThenFalse ==
  /\ [][\A e \in ExecIds :
          (/\ CancelReturned(e)
           /\ \/ cancel[e].pc = "checked"
              \/ HasRow(e) /\ Row(e).status \in {"pending", "running"})
            => cancel'[e].returns[Len(cancel'[e].returns)] = "true"]_vars
  /\ [](\A e \in ExecIds : \A i \in 1..Len(cancel[e].returns) :
          (cancel[e].returns[i] = "true" /\ i < Len(cancel[e].returns))
            => cancel[e].returns[i + 1] = "false")

TerminalStatuses == {"completed", "failed", "cancelled"}

\* C13: a cancelTask call on an execution whose status is completed,
\* failed or cancelled returns false, throws nothing, and leaves the rows
\* of task_executions, the jobs and the wait list as they were.
C13_TerminalCancelIsNoOp ==
  [][\A e \in ExecIds :
       (CancelCalled(e) /\ Row(e).status \in TerminalStatuses)
         => /\ cancel'[e].pc = "idle"
            /\ cancel'[e].returns = Append(cancel[e].returns, "false")
            /\ task_executions' = task_executions
            /\ jobs' = jobs
            /\ wait' = wait]_vars

\* C13 witness: a second cancelTask call has returned false on an
\* execution that the first call cancelled and no worker has touched
C13_Witness ==
  \E e \in ExecIds :
    /\ cancel[e].returns = <<"true", "false">>
    /\ Row(e).status = "cancelled"
    /\ JobPhase(e) = "unleased"

\* C14: started_at of a row is written once only, by the write that takes
\* the row from pending to running; no later write (of a retry attempt
\* either) changes it.
C14_StartedAtWrittenOnce ==
  [][\A e \in ExecIds :
       (HasRow(e) /\ Row(e)'.started_at # Row(e).started_at)
         => /\ Row(e).started_at = 0
            /\ Row(e).status = "pending"
            /\ Row(e)'.status = "running"]_vars

\* C15: completed_at of a row is written once only, by the write that
\* takes the row into completed, failed or cancelled; no later write
\* changes it.
C15_CompletedAtWrittenOnce ==
  [][\A e \in ExecIds :
       (HasRow(e) /\ Row(e)'.completed_at # Row(e).completed_at)
         => /\ Row(e).completed_at = 0
            /\ Row(e).status \notin TerminalStatuses
            /\ Row(e)'.status \in TerminalStatuses]_vars

\* C16: whenever the status of a row is completed or failed, completed_at
\* is set and is not earlier than started_at.
C16_CompletedNotBeforeStarted ==
  \A e \in ExecIds :
    Row(e).status \in {"completed", "failed"}
      => /\ Row(e).completed_at # 0
         /\ Row(e).completed_at >= Row(e).started_at

\* C16 witness: a retry attempt has started and ended, so both timestamps
\* have been rewritten
C16_Witness ==
  \E j \in JobIds :
    /\ jobs[j].leases > 1
    /\ Row(jobs[j].executionId).status \in {"completed", "failed"}
    /\ Row(jobs[j].executionId).started_at > 1

\* C20: when the processor finds no registered agent for the task type of
\* its job, the row is marked failed and the job is not retried: the
\* attempt that found no agent is the last one the queue makes.
C20_NoAgentNoRetry ==
  [][\A j \in JobIds :
       jobs[j].error = NoAgentError
         => /\ (jobs[j].pc = "catch" /\ jobs'[j].pc = "callback_failed")
                 => Row(jobs[j].executionId)'.status = "failed"
            /\ (jobs[j].pc = "callback_failed" /\ jobs'[j].pc = "none")
                 => jobs'[j].state = "failed"]_vars

\* job j is handed to a worker at this step
Leased(j) == jobs'[j].leases = jobs[j].leases + 1

\* C17: whenever a job is leased, no job waiting at that moment has a
\* strictly smaller priority value, and every job added before with a
\* strictly smaller priority value has been leased already: jobs added
\* low, high, medium before any lease run high, medium, low.
C17_SmallestPriorityFirst ==
  [][\A j \in JobIds :
       Leased(j) =>
         \A i \in JobIds \ {j} :
           jobs[i].priority < jobs[j].priority
             => /\ jobs[i].state # "waiting"
                /\ jobs[i].leases >= 1]_vars

\* C17 witness: jobs were added low, high, medium; the high one has run,
\* the medium one is running its first attempt, the low one still waits
C17_Witness ==
  /\ Len(jobs) = 3
  /\ <<jobs[1].priority, jobs[2].priority, jobs[3].priority>>
       = <<LOW, HIGH, MEDIUM>>
  /\ <<jobs[1].leases, jobs[2].leases, jobs[3].leases>> = <<0, 1, 1>>
  /\ jobs[2].state = "removed"
  /\ jobs[3].state = "active"
  /\ wait = <<1>>

\* C18 as stated: whenever a job is leased, no job of the same priority
\* that was added before it is waiting at that moment.
C18_FifoAmongEqual ==
  [][\A j \in JobIds :
       Leased(j) =>
         \A i \in JobIds :
           (i < j /\ jobs[i].priority = jobs[j].priority)
             => jobs[i].state # "waiting"]_vars

\* C18 amended: whenever a job is leased for the first time, every job of
\* the same priority that was added before it has been leased before (a
\* retried job may wait behind it).
C18_FifoAmongFirstAttempts ==
  [][\A j \in JobIds :
       (Leased(j) /\ jobs[j].leases = 0) =>
         \A i \in JobIds :
           (i < j /\ jobs[i].priority = jobs[j].priority)
             => jobs[i].leases >= 1]_vars

\* C18 witness: two jobs of one priority waited together for their first
\* attempts and the earlier one was leased first
C18_Witness ==
  \E i, j \in JobIds :
    /\ i < j
    /\ jobs[i].priority = jobs[j].priority
    /\ jobs[i].state = "active" /\ jobs[i].leases = 1
    /\ jobs[j].state = "waiting" /\ jobs[j].leases = 0

\* the agent call of an attempt of e has returned a value
AgentReturned(e) ==
  \E j \in JobIds : jobs[j].executionId = e /\ jobs[j].pc = "agent_returned"

\* every attempt of the job of e has thrown
FailedForGood(e) ==
  \E j \in JobIds : jobs[j].executionId = e /\ jobs[j].state = "failed"

\* getTaskResult answers completed with the value the agent returned
CompletedWithValue(e) ==
  /\ getTaskResult(e).throws = NULL
  /\ getTaskResult(e).status = "completed"
  /\ getTaskResult(e).result = AgentResult

C21_SingleCallback ==
  \A e \in ExecIds :
    /\ callbacks[e] <= 1
    /\ callbacks[e] > 0 => submit[e].callback

\* the processor of job j sends its callback at this step and the delivery
\* fails
DeliveryFails(j) ==
  /\ jobs[j].pc \in {"callback_completed", "callback_failed"}
  /\ jobs'[j].pc # jobs[j].pc
  /\ jobs'[j].delivery \in {"not_ok", "network_error"}

\* C22: a callback whose delivery fails is POSTed once by the handler,
\* leaves every row of task_executions as it is, and the handler reports
\* to the queue what it reports after a delivery that succeeds: the job
\* completes after a completed attempt, and fails with the error of the
\* attempt after a failed one.
C22_FailedDeliveryIsIgnored ==
  [][\A j \in JobIds :
       DeliveryFails(j) =>
         /\ callbacks'[jobs[j].executionId]
              = callbacks[jobs[j].executionId] + 1
         /\ task_executions' = task_executions
         /\ jobs[j].pc = "callback_completed"
              => (jobs'[j].state = "removed" /\ jobs'[j].pc = "none")
         /\ jobs[j].pc = "callback_failed"
              => jobs'[j] = AfterThrow([jobs[j] EXCEPT
                                         !.delivery = jobs'[j].delivery])]_vars

\* C22 witness: the callback of a completed attempt met a network error,
\* the job is done and the row shows completed
C22_Witness ==
  \E j \in JobIds :
    /\ jobs[j].delivery = "network_error"
    /\ jobs[j].state = "removed"
    /\ Row(jobs[j].executionId).status = "completed"
    /\ Row(jobs[j].executionId).error = NULL

\* C23: for a row whose status is pending or running, getTaskResult throws
\* nothing and answers that status with the still-in-progress message,
\* without result and error.
C23_InProgressAnswer ==
  \A e \in ExecIds :
    Row(e).status \in {"pending", "running"}
      => getTaskResult(e) =
           [throws |-> NULL, status |-> Row(e).status,
            message |-> "Task execution is still in progress",
            result |-> NULL, error |-> NULL, completedAt |-> 0]

\* C23 witness: a retry attempt is running on a row that still holds the
\* error of the attempt before
C23_Witness ==
  \E e \in ExecIds :
    /\ Row(e).status = "running"
    /\ Row(e).error # NULL
    /\ Row(e).completed_at # 0

\* C24: for an executionId without a row, getTaskStatus and getTaskResult
\* throw TaskNotFoundError, and so does every cancelTask call.
C24_UnknownIdNotFound ==
  \A e \in ExecIds :
    ~HasRow(e) =>
      /\ getTaskStatus(e).throws = "TaskNotFoundError"
      /\ getTaskResult(e).throws = "TaskNotFoundError"
      /\ \A i \in 1..Len(cancel[e].returns) :
           cancel[e].returns[i] = "TaskNotFoundError"

\* an agent of the id of this agent is registered
IdRegistered(agent) ==
  \E i \in 1..Len(registry) : AgentId(registry[i]) = AgentId(agent)

\* C25: registerAgent called with an agent whose id is registered already
\* throws DuplicateAgentError and leaves the agents and their order as
\* they are.
C25_DuplicateRejected ==
  \A agent \in Agents :
    IdRegistered(agent)
      => /\ registerAgent(agent).throws = "DuplicateAgentError"
         /\ registerAgent(agent).agents = registry

\* place of a registered agent in a sequence of agents
Place(agents, agent) == CHOOSE i \in 1..Len(agents) : agents[i] = agent
Registered(agents) == {agents[i] : i \in 1..Len(agents)}

\* the registry keeps its agents in the order of their registration:
\* agents that stay registered over a step keep their order, and an agent
\* registered by the step stands behind all of them
RegistrationOrderKept ==
  \A x \in Registered(registry) \cap Registered(registry') :
    /\ \A y \in Registered(registry) \cap Registered(registry') :
         Place(registry, x) < Place(registry, y)
           => Place(registry', x) < Place(registry', y)
    /\ \A z \in Registered(registry') \ Registered(registry) :
         Place(registry', x) < Place(registry', z)

\* the first of the registered agents whose capabilities hold the type
EarliestCapable(taskType) ==
  LET capable == {i \in 1..Len(registry) : taskType \in Capabilities(registry[i])}
  IN IF capable = {} THEN NULL
     ELSE registry[CHOOSE i \in capable : \A k \in capable : i <= k]

BrandsWithConfig ==
  {b \in BrandKeys : \/ configCache[b] # <<>>
                      \/ Cardinality({i \in 1..Len(brands) :
                                        brands[i].key = b}) = 1}
ConfigOf(b) ==
  IF configCache[b] # <<>> THEN configCache[b][1]
  ELSE brands[CHOOSE i \in 1..Len(brands) : brands[i].key = b]

\* the parameter defaults a brand has for a task type: those of its
\* override for the type if the override names parameters, else those of
\* its default settings, else none
TenantDefaults(b, taskType) ==
  LET settings == ConfigOf(b).taskSettings
  IN IF HasKey(settings, "taskOverrides")
        /\ HasKey(settings.taskOverrides, taskType)
        /\ HasKey(settings.taskOverrides[taskType], "parameters")
       THEN settings.taskOverrides[taskType].parameters
     ELSE IF HasKey(settings.default, "parameters")
       THEN settings.default.parameters
     ELSE NoParameters

\* C27: for a brand that has a config, getTaskParameters returns a map whose
\* keys are the keys of the brand's parameter defaults for the task type
\* together with the caller's keys; a key of the caller carries the caller's
\* whole value, every other key carries the brand's default.
C27_CallerWinsShallow ==
  \A b \in BrandsWithConfig, t \in TaskTypes, u \in CallerParameters :
    LET r == getTaskParameters(b, t, u)
        d == TenantDefaults(b, t)
    IN /\ r.throws = NULL
       /\ DOMAIN r.parameters = DOMAIN d \cup DOMAIN u
       /\ \A k \in DOMAIN u : r.parameters[k] = u[k]
       /\ \A k \in DOMAIN d \ DOMAIN u : r.parameters[k] = d[k]

\* a submitTask call has stored the merge of a caller's map with a brand's
\* defaults where both name a deep value under the same key
C27_Witness ==
  \E e \in ExecIds :
    /\ submit[e].pc = "inserted"
    /\ submit[e].brand = "dbBrand"
    /\ submit[e].parameters =
         [filters |-> [bpm |-> 128], genre |-> "house", trackCount |-> 10]

\* the priority a brand configures for a task type: that of its override
\* for the type, else that of its default settings, else none ("")
TenantPriority(b, taskType) ==
  LET settings == ConfigOf(b).taskSettings
  IN IF HasKey(settings, "taskOverrides")
        /\ HasKey(settings.taskOverrides, taskType)
        /\ HasKey(settings.taskOverrides[taskType], "priority")
       THEN settings.taskOverrides[taskType].priority
     ELSE IF HasKey(settings.default, "priority")
       THEN settings.default.priority
     ELSE ""

\* the priority a request is to run with: the one its caller gave, else the
\* one its brand configures, else medium
EffectivePriority(body) ==
  IF body.priority # "" THEN body.priority
  ELSE IF body.brand # NoBrand /\ TenantPriority(body.brand, body.task) # ""
    THEN TenantPriority(body.brand, body.task)
  ELSE "medium"

\* C28: the priority stored on the execution row of a request, and the one
\* its job is enqueued with, is the priority the caller gave, else the
\* priority of the brand's task config, else medium; a request that names a
\* brand and gives no priority gets the brand's priority.
C28_CallerThenTenantThenMedium ==
  /\ [][\A e \in ExecIds, body \in Bodies :
          PostRun(e, body) /\ submit'[e].pc = "inserted"
            => task_executions'[e].priority = EffectivePriority(body)]_vars
  /\ [](\A j \in JobIds :
          jobs[j].priority =
            getPriorityValue(task_executions[jobs[j].executionId].priority))

\* a brand's default task settings with its overrides for the task type put
\* over them key by key
TenantTaskConfig(b, taskType) ==
  LET settings == ConfigOf(b).taskSettings
      overrides == IF HasKey(settings, "taskOverrides")
                      /\ HasKey(settings.taskOverrides, taskType)
                     THEN settings.taskOverrides[taskType] ELSE NoParameters
  IN [k \in DOMAIN settings.default \cup DOMAIN overrides |->
        IF k \in DOMAIN overrides THEN overrides[k] ELSE settings.default[k]]

\* task types some registered agent can execute
Routable == {t \in TaskTypes : findAgentForTask(t) # NULL}

\* C29: for a task type an agent can execute, routeTask without a brand
\* returns the task config {priority: medium, timeout: 60000, retries: 3};
\* with a brand that has a config it returns the brand's default task
\* settings with the brand's overrides for the task type applied key by key,
\* the override winning.
C29_TenantConfigOverDefaults ==
  \A t \in Routable :
    /\ routeTask(t, NoBrand).throws = NULL
    /\ routeTask(t, NoBrand).taskConfig =
         [priority |-> "medium", timeout |-> 60000, retries |-> 3]
    /\ \A b \in BrandsWithConfig :
         /\ routeTask(t, b).throws = NULL
         /\ routeTask(t, b).taskConfig = TenantTaskConfig(b, t)

\* a request of a brand with an override for its task type was routed, and
\* the config it was routed with has the override's priority and the
\* default's timeout
C29_Witness ==
  \E e \in ExecIds :
    /\ submit[e].pc = "inserted"
    /\ submit[e].brand = "edmShuffle"
    /\ submit[e].taskType \in Routable
    /\ LET c == routeTask(submit[e].taskType, submit[e].brand).taskConfig
       IN c.priority = "high" /\ c.timeout = 60000

\* brands for which the brand config fails: getBrandConfig throws
FailingBrands == {b \in BrandKeys : getBrandConfig(b).throws # NULL}

\* C30: when the brand config fails for the brand, processTaskParameters
\* does not throw and returns the caller's parameters as they are; when no
\* brand is named it returns the caller's parameters as they are and the
\* brand config is not consulted (its cache is as before).
C30_FallbackToCallerParameters ==
  \A t \in TaskTypes, u \in CallerParameters :
    /\ \A b \in FailingBrands :
         /\ getTaskParameters(b, t, u).throws # NULL
         /\ processTaskParameters(t, u, b).throws = NULL
         /\ processTaskParameters(t, u, b).parameters = u
    /\ processTaskParameters(t, u, NoBrand).throws = NULL
    /\ processTaskParameters(t, u, NoBrand).parameters = u
    /\ processTaskParameters(t, u, NoBrand).cache = configCache

\* a request without a brand was stored with its caller's parameters, while
\* there is a brand for which the brand config fails
C30_Witness ==
  /\ FailingBrands # {}
  /\ \E e \in ExecIds :
       /\ submit[e].pc = "inserted"
       /\ submit[e].brand = NoBrand
       /\ submit[e].parameters = [genre |-> "house"]

\* worker attempts that still have a write to the row of e before them:
\* leased, and not yet past the processor's last update
WritingAttempts(e) ==
  {j \in JobIds : /\ jobs[j].executionId = e
                  /\ jobs[j].state = "active"
                  /\ jobs[j].pc \in {"start", "agent_start", "agent_work",
                                    "agent_returned", "catch"}}

\* cancelTask calls between their read of the status and their write
WritingCancels(e) == IF cancel[e].pc = "checked" THEN {e} ELSE {}

\* C31: at any time at most one operation is inside its sequence of reads
\* and writes on the row of an execution: never two worker attempts, and
\* never a worker attempt together with a cancelTask call that has read
\* the status and not yet written.
C31_SingleWriter ==
  \A e \in ExecIds :
    Cardinality(WritingAttempts(e)) + Cardinality(WritingCancels(e)) <= 1

\* a step of agent.executeTask
AgentStep ==
  \E j \in JobSlots : AgentStart(j) \/ AgentSucceeds(j) \/ AgentFails(j)

\* C32: status, result, error, started_at and completed_at of an execution
\* row are written by submitTask, the processor and cancelTask only: no
\* step of an agent's executeTask changes a row.
C32_AgentNeverWrites ==
  [][AgentStep => task_executions' = task_executions]_vars

\* a job that waits for its first lease
StillWaiting(jobId) ==
  /\ jobId \in JobIds
  /\ jobs[jobId].state = "waiting"
  /\ jobs[jobId].leases = 0

\* C33: cancelJob returns true and removes the job when the job still waits
\* for its first lease; for every other job id (active, completed, failed,
\* leased before, unknown) it returns false and removes nothing.
C33_CancelJobOnlyWaiting ==
  \A jobId \in 1..(MaxJobs + 1) :
    LET r == cancelJob(jobId)
    IN IF StillWaiting(jobId)
         THEN /\ r.throws = NULL
              /\ r.returns
              /\ r.jobs[jobId].state = "removed"
              /\ jobId \notin {r.wait[i] : i \in 1..Len(r.wait)}
         ELSE /\ r.throws = NULL
              /\ ~r.returns
              /\ r.jobs = jobs
              /\ r.wait = wait

\* the merge of a caller's parameters with the defaults the brand of the
\* request has at the time of the submit
MergedAtSubmit(body) ==
  IF body.brand # NoBrand /\ body.brand \in BrandsWithConfig
    THEN LET d == TenantDefaults(body.brand, body.task)
         IN [k \in DOMAIN d \cup DOMAIN body.parameters |->
               IF k \in DOMAIN body.parameters THEN body.parameters[k]
                                                ELSE d[k]]
    ELSE body.parameters

\* C34: the parameters of an execution are fixed when it is submitted: the
\* row is inserted with the merge of the caller's parameters and the
\* brand's defaults of that moment, no later step changes the parameters
\* of a row or of a job, the job carries the parameters of its row, and
\* every call of the agent is given them.
C34_ParametersFixed ==
  /\ [][\A e \in ExecIds :
          /\ \A body \in Bodies :
               PostRun(e, body) /\ submit'[e].pc = "inserted"
                 => task_executions'[e].parameters = MergedAtSubmit(body)
          /\ task_executions[e].status # NULL
               => task_executions'[e].parameters
                    = task_executions[e].parameters]_vars
  /\ [](\A j \in JobIds :
          /\ jobs[j].parameters
               = task_executions[jobs[j].executionId].parameters
          /\ jobs[j].pc \in {"agent_start", "agent_work"}
               => jobs[j].context
                    = task_executions[jobs[j].executionId].parameters)

\* a retry attempt of a request of a brand calls the agent after the
\* brand's config was updated and the execution was cancelled
C34_Witness ==
  \E j \in JobIds :
    /\ jobs[j].pc = "agent_work"
    /\ jobs[j].attemptsMade > 0
    /\ jobs[j].brand = "edmShuffle"
    /\ configCache["edmShuffle"] # <<edmShuffle>>
    /\ cancel[jobs[j].executionId].returns # <<>>
    /\ jobs[j].context = [includeNewReleases |-> TRUE, trackCount |-> 50]

\* jobs that have left the live states of the queue: completed and removed,
\* or failed with no attempt left
FinishedJobs == {j \in JobIds : jobs[j].state \in {"removed", "failed"}}

\* C35: whenever the job of an execution has left the live states of the
\* queue (its processor returned and the job was removed, or its attempts
\* are used up), the status of the execution row is terminal: no row is
\* pending or running after its job is finished, also when an update of
\* the store reported an error.
C35_FinishedJobTerminalRow ==
  \A j \in FinishedJobs :
    HasRow(jobs[j].executionId)
      => Row(jobs[j].executionId).status \in TerminalStatuses

\* the steps of one attempt, in the order of the processor: lease, write
\* running, the agent, write completed or failed, callback
StepOrder ==
  { <<"none", "start">>, <<"start", "agent_start">>, <<"start", "catch">>,
    <<"agent_start", "agent_work">>, <<"agent_work", "agent_returned">>,
    <<"agent_work", "catch">>, <<"agent_returned", "callback_completed">>,
    <<"catch", "callback_failed">>, <<"callback_completed", "none">>,
    <<"callback_failed", "none">> }

\* the status the callback of a job is about to report
Reported(j) ==
  IF jobs[j].pc = "callback_completed" THEN "completed" ELSE "failed"

C37_FieldsOnlyWhenFinished ==
  \A e \in ExecIds :
    HasRow(e) =>
      LET r == getTaskResult(e)
      IN /\ r.throws = NULL
         /\ r.status = Row(e).status
         /\ IF Row(e).status \in {"completed", "failed"}
              THEN /\ r.message = NULL
                   /\ r.result = Row(e).result
                   /\ r.error = Row(e).error
                   /\ r.completedAt = Row(e).completed_at
              ELSE /\ r.message = "Task execution is still in progress"
                   /\ r.result = NULL
                   /\ r.error = NULL
                   /\ r.completedAt = 0

\* a cancelled row that holds a result and a completed_at, for which
\* getTaskResult answers that the execution is still in progress
C37_Witness ==
  \E e \in ExecIds :
    /\ Row(e).status = "cancelled"
    /\ Row(e).result # NULL
    /\ Row(e).completed_at # 0
    /\ getTaskResult(e).message = "Task execution is still in progress"

\* rows of the `brands` table with a key
RowsOfKey(key) == {i \in 1..Len(brands) : brands[i].key = key}

\* C38: after any interleaving of createBrandConfig calls the `brands`
\* table holds at most one row per key; a call for a key that has a row
\* ends with BrandConfigError, inserts nothing and leaves the cached config
\* of the key as it was.
C38_OneRowPerKey ==
  /\ [](\A key \in BrandKeys : Cardinality(RowsOfKey(key)) <= 1)
  /\ [][\A c \in CreateIds :
          /\ create[c].pc # "done" /\ create'[c].pc = "done"
          /\ RowsOfKey(create'[c].config.key) # {}
          => /\ create'[c].throws = "BrandConfigError"
             /\ brands' = brands
             /\ configCache' = configCache]_vars

\* a key has a window, and the request now arriving falls into it
InWindow(key) ==
  /\ limiter.requestCounts[key].resetTime # 0
  /\ limiter.now <= limiter.requestCounts[key].resetTime

====
